---- MODULE Spec2Model ----
(***************************************************************************)
(* Model of receipt_automator.py: the watchdog handler                     *)
(* ReceiptHandler.on_created, the OCR step, the rule-based parser          *)
(* parse_receipt_data, and the two sinks save_to_csv and save_to_postgres. *)
(*                                                                         *)
(* Text is modelled at the character level: a Python str is a sequence of  *)
(* one-character strings, so that str.split, str.strip, the "in" substring *)
(* test and the three regular expressions are computed, not assumed.       *)
(* An optional value (Python None or a value) is a sequence of length 0 or *)
(* 1.  A float read from a two-fractional-digit decimal is held exactly,   *)
(* as its number of hundredths.                                            *)
(***************************************************************************)
EXTENDS Integers, Sequences, FiniteSets, TLC

VARIABLES
    pc,             \* position of the observer thread inside on_created
    handled,        \* number of created-notifications dispatched so far
    clock,          \* wall clock read by datetime.now()
    event,          \* the notification being handled
    watch,          \* entries present in WATCH_FOLDER
    archive,        \* entries present in PROCESSED_FOLDER
    raw_text,       \* on_created: result of extract_text_from_image
    cleaned_lines,  \* parse_receipt_data: normalized lines
    idx,            \* parse_receipt_data: position of the running for-loop
    data,           \* parse_receipt_data: the record under construction
    start_parsing,  \* parse_receipt_data: state of the line-item scanner
    structured_data,\* on_created: the record returned by the parser
    assembled,      \* history: every record returned by the parser, in order
    csv_file,       \* CSV_FILE_PATH: absent, or its rows
    db_receipts,    \* committed rows of table receipts
    db_items,       \* committed rows of table receipt_items
    receipt_seq,    \* the sequence behind receipts.receipt_id
    txn,            \* save_to_postgres: open connection's uncommitted rows
    item_k,         \* save_to_postgres: position of the item for-loop
    stdout          \* operator-visible channel: what print() has written

vars == <<pc, handled, clock, event, watch, archive, raw_text, cleaned_lines,
          idx, data, start_parsing, structured_data, assembled, csv_file,
          db_receipts, db_items, receipt_seq, txn, item_k, stdout>>

parse_vars == <<cleaned_lines, idx, data, start_parsing>>
sink_vars == <<csv_file, db_receipts, db_items, receipt_seq, txn, item_k>>
folder_vars == <<watch, archive>>

(***************************************************************************)
(* Bounds of the model.                                                    *)
(***************************************************************************)
MaxEvents == 3
MaxFieldLines == 3
MaxItemLines == 4

(***************************************************************************)
(* Optional values and characters.                                         *)
(***************************************************************************)
None == <<>>
Some(v) == <<v>>

Digit == {"0","1","2","3","4","5","6","7","8","9"}
Upper == {"A","B","C","D","E","F","G","H","I","J","K","L","M",
          "N","O","P","Q","R","S","T","U","V","W","X","Y","Z"}
\* what str.strip() removes and what \s matches
Whitespace == {" ", "\t", "\n", "\r"}

Last(s) == s[Len(s)]

\* the value of a run of decimal digits, as int() computes it
DigitValue(c) ==
    CASE c = "0" -> 0 [] c = "1" -> 1 [] c = "2" -> 2 [] c = "3" -> 3
      [] c = "4" -> 4 [] c = "5" -> 5 [] c = "6" -> 6 [] c = "7" -> 7
      [] c = "8" -> 8 [] c = "9" -> 9

RECURSIVE PyInt(_)
PyInt(s) ==
    IF s = <<>> THEN 0
    ELSE 10 * PyInt(SubSeq(s, 1, Len(s) - 1)) + DigitValue(Last(s))

\* float() of a match of amount_pattern, in hundredths
PyFloat(s) ==
    LET n == Len(s)
    IN  100 * PyInt(SubSeq(s, 1, n - 3)) + PyInt(SubSeq(s, n - 1, n))

(***************************************************************************)
(* String literals of the source.                                          *)
(***************************************************************************)
\* 'GSTIN'
K_GSTIN == <<"G","S","T","I","N">>
\* 'Invoice Amount'
K_InvoiceAmount == <<"I","n","v","o","i","c","e"," ","A","m","o","u","n","t">>
\* 'Total'
K_Total == <<"T","o","t","a","l">>
\* 'Amount'
K_Amount == <<"A","m","o","u","n","t">>
\* 'Quant'
K_Quant == <<"Q","u","a","n","t">>
\* 'Taxable'
K_Taxable == <<"T","a","x","a","b","l","e">>
\* 'Invoice'
K_Invoice == <<"I","n","v","o","i","c","e">>
\* 'Unknown'
K_Unknown == <<"U","n","k","n","o","w","n">>

(***************************************************************************)
(* str operations.                                                         *)
(***************************************************************************)
\* needle in s
Contains(s, needle) ==
    \E p \in 1..(Len(s) - Len(needle) + 1) :
        SubSeq(s, p, p + Len(needle) - 1) = needle

\* s.split('\n')
RECURSIVE Split(_)
Split(s) ==
    IF \A i \in 1..Len(s) : s[i] # "\n" THEN <<s>>
    ELSE LET i == CHOOSE j \in 1..Len(s) :
                      s[j] = "\n" /\ \A k \in 1..(j - 1) : s[k] # "\n"
         IN  <<SubSeq(s, 1, i - 1)>> \o Split(SubSeq(s, i + 1, Len(s)))

\* s.strip()
Strip(s) ==
    IF \A i \in 1..Len(s) : s[i] \in Whitespace THEN <<>>
    ELSE LET a == CHOOSE i \in 1..Len(s) :
                      s[i] \notin Whitespace
                      /\ \A k \in 1..(i - 1) : s[k] \in Whitespace
             b == CHOOSE i \in 1..Len(s) :
                      s[i] \notin Whitespace
                      /\ \A k \in (i + 1)..Len(s) : s[k] \in Whitespace
         IN  SubSeq(s, a, b)

\* [line.strip() for line in lines if line.strip()]
RECURSIVE CleanLines(_)
CleanLines(lines) ==
    IF lines = <<>> THEN <<>>
    ELSE LET l == Strip(Head(lines))
         IN  (IF l = <<>> THEN <<>> ELSE <<l>>) \o CleanLines(Tail(lines))

(***************************************************************************)
(* The three regular expressions of parse_receipt_data.                    *)
(***************************************************************************)
\* [0-9]{2}[A-Z]{5}[0-9]{4}[A-Z]{1}[0-9A-Z]{1}Z[0-9A-Z]{1}
gstin_pattern_any_digit ==
    <<Digit, Digit, Upper, Upper, Upper, Upper, Upper, Digit, Digit, Digit,
      Digit, Upper, Digit \cup Upper, {"Z"}, Digit \cup Upper>>

\* [0-9]{2}[A-Z]{5}[0-9]{4}[A-Z]{1}[1-9A-Z]{1}Z[0-9A-Z]{1}
gstin_pattern ==
    <<Digit, Digit, Upper, Upper, Upper, Upper, Upper, Digit, Digit, Digit,
      Digit, Upper, (Digit \ {"0"}) \cup Upper, {"Z"}, Digit \cup Upper>>

\* the pattern, a sequence of character classes, matches s at position p
ClassesMatchAt(pattern, s, p) ==
    /\ p + Len(pattern) - 1 <= Len(s)
    /\ \A k \in 1..Len(pattern) : s[p + k - 1] \in pattern[k]

\* re.search(gstin_pattern, line): group(0) of the leftmost match, or None
re_search_gstin(line) ==
    LET starts == {p \in 1..Len(line) : ClassesMatchAt(gstin_pattern, line, p)}
    IN  IF starts = {} THEN None
        ELSE LET p == CHOOSE q \in starts : \A r \in starts : q <= r
             IN  Some(SubSeq(line, p, p + Len(gstin_pattern) - 1))

\* end of the run of digits of s that starts at p (p - 1 when s[p] is no digit)
RECURSIVE DigitRunEnd(_, _)
DigitRunEnd(s, p) ==
    IF p <= Len(s) /\ s[p] \in Digit THEN DigitRunEnd(s, p + 1) ELSE p - 1

\* end of the run of whitespace of s that starts at p
RECURSIVE SpaceRunEnd(_, _)
SpaceRunEnd(s, p) ==
    IF p <= Len(s) /\ s[p] \in Whitespace THEN SpaceRunEnd(s, p + 1) ELSE p - 1

\* (\d+\.\d{2}) tried at position p: the end of the match, or 0
AmountEndAt(s, p) ==
    LET q == DigitRunEnd(s, p)
    IN  IF /\ q >= p
           /\ q + 3 <= Len(s)
           /\ s[q + 1] = "."
           /\ s[q + 2] \in Digit
           /\ s[q + 3] \in Digit
        THEN q + 3 ELSE 0

\* re.findall(amount_pattern, line), scanning from position p
RECURSIVE FindAllFrom(_, _)
FindAllFrom(s, p) ==
    IF p > Len(s) THEN <<>>
    ELSE LET e == AmountEndAt(s, p)
         IN  IF e = 0 THEN FindAllFrom(s, p + 1)
             ELSE <<SubSeq(s, p, e)>> \o FindAllFrom(s, e + 1)

re_findall_amount(line) == FindAllFrom(line, 1)

\* \s+(\d+)\s+(\d+\.\d{2})$ matched against the whole of the suffix of s
\* that starts at p: the groups' bounds, or None
ItemTailAt(s, p) ==
    LET a == SpaceRunEnd(s, p)
        b == DigitRunEnd(s, a + 1)
        c == SpaceRunEnd(s, b + 1)
        e == AmountEndAt(s, c + 1)
    IN  IF a >= p /\ b > a /\ c > b /\ e = Len(s)
        THEN Some([q1 |-> a + 1, q2 |-> b, a1 |-> c + 1, a2 |-> e])
        ELSE None

\* re.search(item_pattern, line) for (.+?)\s+(\d+)\s+(\d+\.\d{2})$ : a match
\* starts at the first character, and the lazy group 1 is the shortest
\* prefix after which the tail matches
re_search_item(line) ==
    LET ends == {k \in 1..Len(line) : ItemTailAt(line, k + 1) # None}
    IN  IF ends = {} THEN None
        ELSE LET k == CHOOSE j \in ends : \A r \in ends : j <= r
                 t == ItemTailAt(line, k + 1)[1]
             IN  Some([g1 |-> SubSeq(line, 1, k),
                       g2 |-> SubSeq(line, t.q1, t.q2),
                       g3 |-> SubSeq(line, t.a1, t.a2)])

(***************************************************************************)
(* parse_receipt_data: the loop bodies.                                    *)
(***************************************************************************)
\* the dict built before the loops
NewData(filename, now, lines) ==
    [filename       |-> filename,
     processed_at   |-> now,
     store_name     |-> IF lines # <<>> THEN lines[1] ELSE K_Unknown,
     gstin          |-> None,
     invoice_amount |-> 0,
     items          |-> <<>>]

\* a variant that keeps the first tax ID found
ExtractGstinFirstWins(d, line) ==
    LET match == re_search_gstin(line)
    IN  IF Contains(line, K_GSTIN) /\ match # None /\ d.gstin = None
        THEN [d EXCEPT !.gstin = match]
        ELSE d

\* "Find GSTIN"
ExtractGstin(d, line) ==
    LET match == re_search_gstin(line)
    IN  IF Contains(line, K_GSTIN) /\ match # None
        THEN [d EXCEPT !.gstin = match]
        ELSE d

\* a variant that takes the first decimal of the line
ExtractTotalFirstAmount(d, line) ==
    LET amounts == re_findall_amount(line)
    IN  IF (Contains(line, K_InvoiceAmount) \/ Contains(line, K_Total))
           /\ amounts # <<>>
        THEN [d EXCEPT !.invoice_amount = PyFloat(amounts[1])]
        ELSE d

\* "Find Total Invoice Amount"
ExtractTotal(d, line) ==
    LET amounts == re_findall_amount(line)
    IN  IF (Contains(line, K_InvoiceAmount) \/ Contains(line, K_Total))
           /\ amounts # <<>>
        THEN [d EXCEPT !.invoice_amount = PyFloat(Last(amounts))]
        ELSE d

\* one iteration of the metadata loop
MetaStep(d, line) == ExtractTotal(ExtractGstin(d, line), line)

IsHeaderLine(line) == Contains(line, K_Amount) /\ Contains(line, K_Quant)

HasStopMarker(line) ==
    Contains(line, K_Taxable) \/ Contains(line, K_Total) \/ Contains(line, K_Invoice)

\* the dict appended for a matching line
ItemOf(m) ==
    [item_name |-> Strip(m.g1),
     quantity  |-> PyInt(m.g2),
     amount    |-> PyFloat(m.g3)]

\* a variant that tests the stop markers before the header
ItemStepStopFirst(st, line) ==
    LET match == re_search_item(line)
    IN  IF HasStopMarker(line) THEN [st EXCEPT !.start_parsing = FALSE]
        ELSE IF IsHeaderLine(line) THEN [st EXCEPT !.start_parsing = TRUE]
        ELSE [start_parsing |-> st.start_parsing,
              items |-> IF st.start_parsing /\ match # None
                        THEN Append(st.items, ItemOf(match[1]))
                        ELSE st.items]

\* one iteration of the line-item loop; st = [start_parsing, items]
ItemStep(st, line) ==
    IF IsHeaderLine(line)
    THEN [st EXCEPT !.start_parsing = TRUE]
    ELSE LET active == st.start_parsing /\ ~HasStopMarker(line)
             match == re_search_item(line)
         IN  [start_parsing |-> active,
              items |-> IF active /\ match # None
                        THEN Append(st.items, ItemOf(match[1]))
                        ELSE st.items]

(***************************************************************************)
(* Configuration and inputs.                                               *)
(***************************************************************************)
USE_DB == TRUE

ImageExtensions == {".png", ".jpg", ".jpeg", ".tiff"}

\* str.lower() on the extensions that occur
Lower(ext) == IF ext = ".JPG" THEN ".jpg" ELSE ext

\* the created-notifications the observer may deliver
Events ==
    {[is_directory |-> FALSE, name |-> "r1", ext |-> ".png"],
     [is_directory |-> FALSE, name |-> "r2", ext |-> ".JPG"],
     [is_directory |-> FALSE, name |-> "notes", ext |-> ".txt"],
     [is_directory |-> TRUE, name |-> "scans", ext |-> ".png"]}

\* os.path.basename(event.src_path)
Basename(e) == e.name \o e.ext

\* '\n'.join(lines)
RECURSIVE JoinLines(_)
JoinLines(lines) ==
    IF lines = <<>> THEN <<>>
    ELSE IF Len(lines) = 1 THEN lines[1]
    ELSE lines[1] \o <<"\n">> \o JoinLines(Tail(lines))

\* every text of 1..n lines drawn from a set of lines
Texts(corpus, n) ==
    {JoinLines(ls) : ls \in UNION {[1..m -> corpus] : m \in 1..n}}

(***************************************************************************)
(* Lines of receipt text used as inputs.                                   *)
(***************************************************************************)
\* '  '
F_blank == <<" "," ">>
\* 'GSTIN: 29ABCDE1234F1Z5 extra text'
F_gstin == <<"G","S","T","I","N",":"," ","2","9","A","B","C","D","E","1","2","3","4","F","1","Z","5"," ","e","x","t","r","a"," ","t","e","x","t">>
\* 'GSTIN 07XYZAB5678K2ZQ 29ABCDE1234F1Z5'
F_gstin_two == <<"G","S","T","I","N"," ","0","7","X","Y","Z","A","B","5","6","7","8","K","2","Z","Q"," ","2","9","A","B","C","D","E","1","2","3","4","F","1","Z","5">>
\* 'GSTIN 29ABCDE1234F0Z5'
F_gstin_zero == <<"G","S","T","I","N"," ","2","9","A","B","C","D","E","1","2","3","4","F","0","Z","5">>
\* 'Ref 27PQRST9876L3ZM Total 10.00 80.50'
F_ref_total == <<"R","e","f"," ","2","7","P","Q","R","S","T","9","8","7","6","L","3","Z","M"," ","T","o","t","a","l"," ","1","0",".","0","0"," ","8","0",".","5","0">>
\* ' Total 75.00'
F_total == <<" ","T","o","t","a","l"," ","7","5",".","0","0">>
\* 'Total due'
F_total_due == <<"T","o","t","a","l"," ","d","u","e">>
\* 'Invoice Amount 1.234.56'
F_invoice == <<"I","n","v","o","i","c","e"," ","A","m","o","u","n","t"," ","1",".","2","3","4",".","5","6">>
\* 'Amount 99.99'
F_amount == <<"A","m","o","u","n","t"," ","9","9",".","9","9">>
\* 'Item Quant Amount'
I_header == <<"I","t","e","m"," ","Q","u","a","n","t"," ","A","m","o","u","n","t">>
\* 'Milk 2 45.00'
I_milk == <<"M","i","l","k"," ","2"," ","4","5",".","0","0">>
\* 'Bread 1 30.00'
I_bread == <<"B","r","e","a","d"," ","1"," ","3","0",".","0","0">>
\* 'Total 3 75.00'
I_total == <<"T","o","t","a","l"," ","3"," ","7","5",".","0","0">>
\* 'Quant Total Amount 1 2.00'
I_header_total == <<"Q","u","a","n","t"," ","T","o","t","a","l"," ","A","m","o","u","n","t"," ","1"," ","2",".","0","0">>
\* 'Thank you'
I_thanks == <<"T","h","a","n","k"," ","y","o","u">>
\* 'Health is Wealth'
H_store == <<"H","e","a","l","t","h"," ","i","s"," ","W","e","a","l","t","h">>
\* '29ABCDE1234F1Z5'
T_29ABCDE1234F1Z5 == <<"2","9","A","B","C","D","E","1","2","3","4","F","1","Z","5">>
\* 'Milk'
T_Milk == <<"M","i","l","k">>
\* 'Bread'
T_Bread == <<"B","r","e","a","d">>
FieldCorpus ==
    {F_blank, F_gstin, F_gstin_two, F_gstin_zero, F_ref_total, F_total,
     F_total_due, F_invoice, F_amount}

ItemCorpus == {I_header, I_milk, I_bread, I_total, I_header_total, I_thanks}

\* what the OCR returns for the receipts dropped into the watch folder
ReceiptNoItems == JoinLines(<<H_store, F_gstin, F_total_due>>)
ReceiptTwoItems == JoinLines(<<H_store, I_header, I_milk, I_bread, F_total>>)
OcrTexts == {<<>>, ReceiptNoItems, ReceiptTwoItems}

(***************************************************************************)
(* Initial states.                                                         *)
(***************************************************************************)
\* the process has started: folders empty, no CSV file, empty tables
Init ==
    /\ pc = "idle"
    /\ handled = 0
    /\ clock = 0
    /\ event = None
    /\ watch = {}
    /\ archive = {}
    /\ raw_text = None
    /\ cleaned_lines = <<>>
    /\ idx = 0
    /\ data = None
    /\ start_parsing = FALSE
    /\ structured_data = None
    /\ assembled = <<>>
    /\ csv_file = None
    /\ db_receipts = <<>>
    /\ db_items = <<>>
    /\ receipt_seq = 0
    /\ txn = None
    /\ item_k = 0
    /\ stdout = <<>>

\* on_created has just obtained the text of r1.png from the OCR
InitParsing(texts) ==
    /\ pc = "ocr_done"
    /\ handled = 1
    /\ clock = 1
    /\ event = Some([is_directory |-> FALSE, name |-> "r1", ext |-> ".png"])
    /\ watch = {"r1.png"}
    /\ archive = {}
    /\ raw_text \in {Some(t) : t \in texts}
    /\ cleaned_lines = <<>>
    /\ idx = 0
    /\ data = None
    /\ start_parsing = FALSE
    /\ structured_data = None
    /\ assembled = <<>>
    /\ csv_file = None
    /\ db_receipts = <<>>
    /\ db_items = <<>>
    /\ receipt_seq = 0
    /\ txn = None
    /\ item_k = 0
    /\ stdout = <<"New file detected">>

InitFields == InitParsing(Texts(FieldCorpus, MaxFieldLines))
InitItems == InitParsing(Texts(ItemCorpus, MaxItemLines))

(***************************************************************************)
(* parse_receipt_data, step by step.                                       *)
(***************************************************************************)
\* a variant that tests raw_text is not None
TruthyNotNone(text) == text # None

\* the truth value of raw_text: None and "" are false
Truthy(text) == text # None /\ text[1] # <<>>

\* if raw_text: ... the call, the split, the cleaning, the dict
ParseStart ==
    /\ pc = "ocr_done"
    /\ Truthy(raw_text)
    /\ LET lines == CleanLines(Split(raw_text[1]))
       IN  /\ cleaned_lines' = lines
           /\ data' = Some(NewData(Basename(event[1]), clock, lines))
    /\ idx' = 1
    /\ start_parsing' = FALSE
    /\ pc' = "parse_meta"
    /\ UNCHANGED <<handled, clock, event, raw_text, structured_data,
                   assembled, stdout>>
    /\ UNCHANGED sink_vars
    /\ UNCHANGED folder_vars

\* for line in cleaned_lines: (metadata)
MetaIter ==
    /\ pc = "parse_meta"
    /\ idx <= Len(cleaned_lines)
    /\ data' = Some(MetaStep(data[1], cleaned_lines[idx]))
    /\ idx' = idx + 1
    /\ UNCHANGED <<pc, handled, clock, event, raw_text, cleaned_lines,
                   start_parsing, structured_data, assembled, stdout>>
    /\ UNCHANGED sink_vars
    /\ UNCHANGED folder_vars

\* the metadata loop is exhausted; start_parsing = False
StartItems ==
    /\ pc = "parse_meta"
    /\ idx > Len(cleaned_lines)
    /\ start_parsing' = FALSE
    /\ idx' = 1
    /\ pc' = "parse_items"
    /\ UNCHANGED <<handled, clock, event, raw_text, cleaned_lines, data,
                   structured_data, assembled, stdout>>
    /\ UNCHANGED sink_vars
    /\ UNCHANGED folder_vars

\* for line in cleaned_lines: (line items)
ItemIter ==
    /\ pc = "parse_items"
    /\ idx <= Len(cleaned_lines)
    /\ LET st == ItemStep([start_parsing |-> start_parsing,
                           items |-> data[1].items], cleaned_lines[idx])
       IN  /\ start_parsing' = st.start_parsing
           /\ data' = Some([data[1] EXCEPT !.items = st.items])
    /\ idx' = idx + 1
    /\ UNCHANGED <<pc, handled, clock, event, raw_text, cleaned_lines,
                   structured_data, assembled, stdout>>
    /\ UNCHANGED sink_vars
    /\ UNCHANGED folder_vars

\* return data
ParseReturn ==
    /\ pc = "parse_items"
    /\ idx > Len(cleaned_lines)
    /\ structured_data' = data
    /\ assembled' = Append(assembled, data[1])
    /\ pc' = "save_csv"
    /\ UNCHANGED <<handled, clock, event, raw_text, cleaned_lines, idx, data,
                   start_parsing, stdout>>
    /\ UNCHANGED sink_vars
    /\ UNCHANGED folder_vars

ParseNext == ParseStart \/ MetaIter \/ StartItems \/ ItemIter \/ ParseReturn

SpecFields == InitFields /\ [][ParseNext]_vars
SpecItems == InitItems /\ [][ParseNext]_vars

(***************************************************************************)
(* save_to_csv.                                                            *)
(***************************************************************************)
\* the row of column names that to_csv(header=True) writes
CsvHeaderRow == [header |-> TRUE, cells |-> None]

CsvDataRow(d, item_name, qty, price) ==
    [header |-> FALSE,
     cells  |-> Some([Filename |-> d.filename,
                      Date     |-> d.processed_at,
                      Store    |-> d.store_name,
                      GSTIN    |-> d.gstin,
                      Total    |-> d.invoice_amount,
                      Item     |-> item_name,
                      Qty      |-> qty,
                      Price    |-> price])]

\* rows = [...] : one row per item, or the N/A row
CsvRows(d) ==
    IF d.items = <<>>
    THEN <<CsvDataRow(d, <<"N", "/", "A">>, 0, 0)>>
    ELSE [i \in 1..Len(d.items) |->
              CsvDataRow(d, d.items[i].item_name, d.items[i].quantity,
                         d.items[i].amount)]

\* a variant that writes the header on every save
CsvWritesHeaderAlways(file) == TRUE

\* header = not os.path.exists(CSV_FILE_PATH)
CsvWritesHeader(file) == file = None

\* df.to_csv(CSV_FILE_PATH, mode='a', header=header, index=False)
CsvAppend(file, d) ==
    Some((IF file = None THEN <<>> ELSE file[1])
         \o (IF CsvWritesHeader(file) THEN <<CsvHeaderRow>> ELSE <<>>)
         \o CsvRows(d))

(***************************************************************************)
(* save_to_postgres: rows and transaction.                                 *)
(***************************************************************************)
ReceiptRow(id, d) ==
    [receipt_id    |-> id,
     store_name    |-> d.store_name,
     gstin         |-> d.gstin,
     invoice_total |-> d.invoice_amount,
     processed_at  |-> d.processed_at,
     filename      |-> d.filename]

ItemRow(id, item) ==
    [receipt_id |-> id,
     item_name  |-> item.item_name,
     quantity   |-> item.quantity,
     amount     |-> item.amount]

\* conn.commit(): the connection's pending rows become committed
Commit(committed, pending) == committed \o pending

\* a variant in which every statement is committed as it runs (autocommit)
RollbackKeepsPending(committed, pending) == committed \o pending

\* the connection is dropped without commit: its pending rows are discarded
Rollback(committed, pending) == committed

\* a variant in which save_to_postgres lets the exception out
AfterDbErrorReraised == "raised"

\* where on_created continues after save_to_postgres caught an exception
AfterDbError == "move"

\* where on_created continues after save_to_csv returned
AfterCsv == IF USE_DB THEN "db_connect" ELSE "move"

DbSteps == {"db_connect", "db_header", "db_items"}

(***************************************************************************)
(* ReceiptHandler.on_created.                                              *)
(***************************************************************************)
\* the entry that the notification is about has appeared in the folder
Created(e) ==
    /\ pc = "idle"
    /\ handled < MaxEvents
    /\ Basename(e) \notin watch
    /\ watch' = watch \cup {Basename(e)}
    /\ handled' = handled + 1
    /\ clock' = clock + 1

\* if event.is_directory: return
OnCreatedDirectory ==
    \E e \in Events :
        /\ Created(e)
        /\ e.is_directory
        /\ UNCHANGED <<pc, event, archive, raw_text, structured_data,
                       assembled, stdout>>
        /\ UNCHANGED parse_vars
        /\ UNCHANGED sink_vars

\* if not event.src_path.lower().endswith(...): return
OnCreatedNotImage ==
    \E e \in Events :
        /\ Created(e)
        /\ ~e.is_directory
        /\ Lower(e.ext) \notin ImageExtensions
        /\ UNCHANGED <<pc, event, archive, raw_text, structured_data,
                       assembled, stdout>>
        /\ UNCHANGED parse_vars
        /\ UNCHANGED sink_vars

\* print("New file detected"); time.sleep(1)
OnCreatedAccept ==
    \E e \in Events :
        /\ Created(e)
        /\ ~e.is_directory
        /\ Lower(e.ext) \in ImageExtensions
        /\ event' = Some(e)
        /\ stdout' = Append(stdout, "New file detected")
        /\ pc' = "ocr"
        /\ UNCHANGED <<archive, raw_text, structured_data, assembled>>
        /\ UNCHANGED parse_vars
        /\ UNCHANGED sink_vars

\* extract_text_from_image returns the text
OcrText ==
    /\ pc = "ocr"
    /\ \E t \in OcrTexts : raw_text' = Some(t)
    /\ pc' = "ocr_done"
    /\ UNCHANGED <<handled, clock, event, structured_data, assembled, stdout>>
    /\ UNCHANGED parse_vars
    /\ UNCHANGED sink_vars
    /\ UNCHANGED folder_vars

\* extract_text_from_image catches an exception and returns None
OcrError ==
    /\ pc = "ocr"
    /\ raw_text' = None
    /\ stdout' = Append(stdout, "Error during OCR")
    /\ pc' = "ocr_done"
    /\ UNCHANGED <<handled, clock, event, structured_data, assembled>>
    /\ UNCHANGED parse_vars
    /\ UNCHANGED sink_vars
    /\ UNCHANGED folder_vars

\* the locals of on_created after it returned
Return ==
    /\ pc' = "idle"
    /\ event' = None
    /\ raw_text' = None
    /\ structured_data' = None
    /\ cleaned_lines' = <<>>
    /\ idx' = 0
    /\ data' = None
    /\ start_parsing' = FALSE
    /\ item_k' = 0

\* if raw_text: is false
NoText ==
    /\ pc = "ocr_done"
    /\ ~Truthy(raw_text)
    /\ Return
    /\ UNCHANGED <<handled, clock, assembled, stdout, csv_file, db_receipts,
                   db_items, receipt_seq, txn>>
    /\ UNCHANGED folder_vars

\* save_to_csv returns
SaveCsv ==
    /\ pc = "save_csv"
    /\ csv_file' = CsvAppend(csv_file, structured_data[1])
    /\ stdout' = Append(stdout, "Data saved to CSV")
    /\ pc' = AfterCsv
    /\ UNCHANGED <<handled, clock, event, raw_text, structured_data,
                   assembled, db_receipts, db_items, receipt_seq, txn, item_k>>
    /\ UNCHANGED parse_vars
    /\ UNCHANGED folder_vars

\* to_csv raises (the file cannot be opened, or it was created and the write
\* failed); nothing in save_to_csv or on_created catches it
SaveCsvRaises ==
    /\ pc = "save_csv"
    /\ \/ csv_file' = csv_file
       \/ csv_file = None /\ csv_file' = Some(<<>>)
    /\ pc' = "raised"
    /\ UNCHANGED <<handled, clock, event, raw_text, structured_data,
                   assembled, db_receipts, db_items, receipt_seq, txn, item_k,
                   stdout>>
    /\ UNCHANGED parse_vars
    /\ UNCHANGED folder_vars

\* conn = psycopg2.connect(**DB_CONFIG); cur = conn.cursor()
DbConnect ==
    /\ pc = "db_connect"
    /\ txn' = Some([receipts |-> <<>>, items |-> <<>>])
    /\ pc' = "db_header"
    /\ UNCHANGED <<handled, clock, event, raw_text, structured_data,
                   assembled, csv_file, db_receipts, db_items, receipt_seq,
                   item_k, stdout>>
    /\ UNCHANGED parse_vars
    /\ UNCHANGED folder_vars

\* cur.execute(insert_header, ...); receipt_id = cur.fetchone()[0]
DbInsertHeader ==
    /\ pc = "db_header"
    /\ receipt_seq' = receipt_seq + 1
    /\ txn' = Some([txn[1] EXCEPT !.receipts =
                       Append(@, ReceiptRow(receipt_seq + 1, structured_data[1]))])
    /\ item_k' = 1
    /\ pc' = "db_items"
    /\ UNCHANGED <<handled, clock, event, raw_text, structured_data,
                   assembled, csv_file, db_receipts, db_items, stdout>>
    /\ UNCHANGED parse_vars
    /\ UNCHANGED folder_vars

\* for item in data['items']: cur.execute(insert_item, ...)
DbInsertItem ==
    /\ pc = "db_items"
    /\ item_k <= Len(structured_data[1].items)
    /\ txn' = Some([txn[1] EXCEPT !.items =
                       Append(@, ItemRow(txn[1].receipts[1].receipt_id,
                                         structured_data[1].items[item_k]))])
    /\ item_k' = item_k + 1
    /\ UNCHANGED <<pc, handled, clock, event, raw_text, structured_data,
                   assembled, csv_file, db_receipts, db_items, receipt_seq,
                   stdout>>
    /\ UNCHANGED parse_vars
    /\ UNCHANGED folder_vars

\* conn.commit(); cur.close(); conn.close(); print(...)
DbCommit ==
    /\ pc = "db_items"
    /\ item_k > Len(structured_data[1].items)
    /\ db_receipts' = Commit(db_receipts, txn[1].receipts)
    /\ db_items' = Commit(db_items, txn[1].items)
    /\ txn' = None
    /\ stdout' = Append(stdout, "Data saved to PostgreSQL")
    /\ pc' = "move"
    /\ UNCHANGED <<handled, clock, event, raw_text, structured_data,
                   assembled, csv_file, receipt_seq, item_k>>
    /\ UNCHANGED parse_vars
    /\ UNCHANGED folder_vars

\* the statement at hand (connect, an execute, the commit) raises;
\* except Exception as e: print(f"Database Error: {e}")
DbError ==
    /\ pc \in DbSteps
    /\ db_receipts' = Rollback(db_receipts,
                               IF txn = None THEN <<>> ELSE txn[1].receipts)
    /\ db_items' = Rollback(db_items,
                            IF txn = None THEN <<>> ELSE txn[1].items)
    /\ txn' = None
    /\ stdout' = Append(stdout, "Database Error")
    /\ pc' = AfterDbError
    /\ UNCHANGED <<handled, clock, event, raw_text, structured_data,
                   assembled, csv_file, receipt_seq, item_k>>
    /\ UNCHANGED parse_vars
    /\ UNCHANGED folder_vars

\* shutil.move(event.src_path, os.path.join(PROCESSED_FOLDER, filename))
MoveFile ==
    /\ pc = "move"
    /\ watch' = watch \ {Basename(event[1])}
    /\ archive' = archive \cup {Basename(event[1])}
    /\ stdout' = Append(stdout, "Moved")
    /\ Return
    /\ UNCHANGED <<handled, clock, assembled, csv_file, db_receipts,
                   db_items, receipt_seq, txn>>

\* shutil.move raises; except Exception as e: print(f"Error moving file: {e}")
MoveError ==
    /\ pc = "move"
    /\ stdout' = Append(stdout, "Error moving file")
    /\ Return
    /\ UNCHANGED <<handled, clock, assembled, csv_file, db_receipts,
                   db_items, receipt_seq, txn>>
    /\ UNCHANGED folder_vars

\* once on_created has raised, the observer thread has ended: pc = "raised"
\* enables nothing
Next ==
    \/ OnCreatedDirectory
    \/ OnCreatedNotImage
    \/ OnCreatedAccept
    \/ OcrText
    \/ OcrError
    \/ NoText
    \/ ParseNext
    \/ SaveCsv
    \/ SaveCsvRaises
    \/ DbConnect
    \/ DbInsertHeader
    \/ DbInsertItem
    \/ DbCommit
    \/ DbError
    \/ MoveFile
    \/ MoveError

Spec == Init /\ [][Next]_vars

(***************************************************************************)
(* Properties of the Field Extractor (checked under SpecFields).           *)
(***************************************************************************)
\* the number of lines the metadata loop has processed
MetaProcessed ==
    IF pc = "parse_meta" THEN idx - 1
    ELSE IF pc \in {"parse_items", "save_csv"} THEN Len(cleaned_lines)
    ELSE 0

\* s is a tax ID: 2 digits, 5 uppercase letters, 4 digits, 1 uppercase
\* letter, 1 character of thirteenth, 'Z', 1 uppercase letter or digit
IsTaxId(s, thirteenth) ==
    /\ Len(s) = 15
    /\ \A i \in {1, 2, 8, 9, 10, 11} : s[i] \in Digit
    /\ \A i \in {3, 4, 5, 6, 7, 12} : s[i] \in Upper
    /\ s[13] \in thirteenth
    /\ s[14] = "Z"
    /\ s[15] \in Digit \cup Upper

\* the leftmost tax ID inside line, or None
TaxIdIn(line, thirteenth) ==
    LET at == {p \in 1..(Len(line) - 14) :
                   IsTaxId(SubSeq(line, p, p + 14), thirteenth)}
    IN  IF at = {} THEN None
        ELSE LET p == CHOOSE q \in at : \A r \in at : q <= r
             IN  Some(SubSeq(line, p, p + 14))

\* the processed lines that contain "GSTIN" and a tax ID
TaxIdLines(thirteenth) ==
    {i \in 1..MetaProcessed :
         /\ Contains(cleaned_lines[i], K_GSTIN)
         /\ TaxIdIn(cleaned_lines[i], thirteenth) # None}

NonZeroOrUpper == (Digit \ {"0"}) \cup Upper

Min(S) == CHOOSE x \in S : \A y \in S : x <= y
Max(S) == CHOOSE x \in S : \A y \in S : x >= y

\* C1 as stated: when two or more lines contain "GSTIN" and a tax ID, gstin
\* is the tax ID of the earliest such line (first-match-wins).
C1_FirstMatchWins ==
    LET Q == TaxIdLines(NonZeroOrUpper)
    IN  Cardinality(Q) >= 2 =>
            data[1].gstin = TaxIdIn(cleaned_lines[Min(Q)], NonZeroOrUpper)

\* C1 amended: when two or more lines contain "GSTIN" and a tax ID, gstin is
\* the tax ID of the latest such line processed (last-match-wins).
C1_LastMatchWins ==
    LET Q == TaxIdLines(NonZeroOrUpper)
    IN  Cardinality(Q) >= 2 =>
            data[1].gstin = TaxIdIn(cleaned_lines[Max(Q)], NonZeroOrUpper)

\* two qualifying lines with different tax IDs have been parsed
C1_Witness ==
    LET Q == TaxIdLines(NonZeroOrUpper)
    IN  /\ pc = "save_csv"
        /\ Cardinality(Q) >= 2
        /\ TaxIdIn(cleaned_lines[Min(Q)], NonZeroOrUpper)
               # TaxIdIn(cleaned_lines[Max(Q)], NonZeroOrUpper)

\* gstin is present exactly when a processed line contains "GSTIN" and a tax
\* ID whose 13th character is in thirteenth; it is then the leftmost tax ID
\* of such a line; with no "GSTIN" line it is absent
TaxIdExtracted(thirteenth) ==
    LET Q == TaxIdLines(thirteenth)
    IN  pc \in {"parse_meta", "parse_items", "save_csv"} =>
            /\ data[1].gstin # None <=> Q # {}
            /\ data[1].gstin # None =>
                   \E i \in Q :
                       data[1].gstin = TaxIdIn(cleaned_lines[i], thirteenth)
            /\ (\A i \in 1..MetaProcessed :
                    ~Contains(cleaned_lines[i], K_GSTIN))
                   => data[1].gstin = None

\* C2 as stated: a "GSTIN" line yields a tax_id exactly when it contains a
\* 15-character tax ID whose 13th character is any uppercase letter or any
\* digit 0-9; the value is that substring; no "GSTIN" line, no tax_id.
C2_AnyDigitThirteenth == TaxIdExtracted(Digit \cup Upper)

\* C2 amended: the same with the 13th character an uppercase letter or a
\* digit 1-9 (a '0' there does not match).
C2_TaxIdExtracted == TaxIdExtracted(NonZeroOrUpper)

\* "GSTIN: 29ABCDE1234F1Z5 extra text" gave exactly 29ABCDE1234F1Z5, and a
\* later "GSTIN" line whose candidate has '0' as 13th character gave nothing
C2_Witness ==
    /\ pc = "save_csv"
    /\ Len(cleaned_lines) = 2
    /\ cleaned_lines[1] = F_gstin
    /\ cleaned_lines[2] = F_gstin_zero
    /\ data[1].gstin = Some(T_29ABCDE1234F1Z5)

\* the processed lines that contain "Invoice Amount" or "Total" and at least
\* one two-fractional-digit decimal
TotalLines ==
    {i \in 1..MetaProcessed :
         /\ Contains(cleaned_lines[i], K_InvoiceAmount)
                \/ Contains(cleaned_lines[i], K_Total)
         /\ re_findall_amount(cleaned_lines[i]) # <<>>}

\* C3: invoice_amount is the last decimal found on the last qualifying line
\* in document order, and 0.0 when no line qualifies.
C3_LastTotalWins ==
    pc \in {"parse_meta", "parse_items", "save_csv"} =>
        data[1].invoice_amount =
            IF TotalLines = {} THEN 0
            ELSE PyFloat(Last(re_findall_amount(cleaned_lines[Max(TotalLines)])))

\* "... Total 10.00 80.50" then "Total 75.00" were parsed: 75.00 is retained
C3_Witness ==
    /\ pc = "save_csv"
    /\ Cardinality(TotalLines) >= 2
    /\ Len(re_findall_amount(cleaned_lines[Min(TotalLines)])) = 2
    /\ data[1].invoice_amount = 7500
    /\ PyFloat(Last(re_findall_amount(cleaned_lines[Min(TotalLines)]))) = 8050

(***************************************************************************)
(* Properties of the Line-Item Extractor (checked under SpecItems).        *)
(***************************************************************************)
\* the number of lines the line-item loop has processed
ItemsProcessed ==
    IF pc = "parse_items" THEN idx - 1
    ELSE IF pc = "save_csv" THEN Len(cleaned_lines)
    ELSE 0

\* a terminator line as C4 states it: any line with a stop marker
StatedTerminator(line) == HasStopMarker(line)

\* a terminator line as the code treats it: a stop marker on a line that is
\* not a header line
ActualTerminator(line) == HasStopMarker(line) /\ ~IsHeaderLine(line)

\* a terminator line in the stated, or else in the actual, sense
Terminator(line, stated) ==
    IF stated THEN StatedTerminator(line) ELSE ActualTerminator(line)

\* the scanner is ACTIVE after n lines: a header line, and no terminator
\* line after it
ActiveAfter(n, stated) ==
    \E h \in 1..n :
        /\ IsHeaderLine(cleaned_lines[h])
        /\ \A j \in (h + 1)..n : ~Terminator(cleaned_lines[j], stated)

\* line i is an item line: it matches the item pattern, is no header line,
\* and lies after a header line with no terminator line between that header
\* and the line itself (inclusive)
EmitsItem(i, stated) ==
    /\ re_search_item(cleaned_lines[i]) # None
    /\ ~IsHeaderLine(cleaned_lines[i])
    /\ ActiveAfter(i, stated)

RECURSIVE ItemsOfLines(_, _)
ItemsOfLines(n, stated) ==
    IF n = 0 THEN <<>>
    ELSE ItemsOfLines(n - 1, stated)
         \o (IF EmitsItem(n, stated)
             THEN <<ItemOf(re_search_item(cleaned_lines[n])[1])>>
             ELSE <<>>)

\* C4 as stated: the scanner starts INACTIVE, is ACTIVE after a line with
\* both "Amount" and "Quant", is INACTIVE after a line with "Taxable",
\* "Total" or "Invoice"; the items are exactly the item lines, in order.
C4_StatedScanner ==
    LET n == ItemsProcessed
    IN  pc \in {"parse_items", "save_csv"} =>
            /\ n = 0 => ~start_parsing
            /\ n > 0 /\ IsHeaderLine(cleaned_lines[n]) => start_parsing
            /\ n > 0 /\ StatedTerminator(cleaned_lines[n]) => ~start_parsing
            /\ data[1].items = ItemsOfLines(n, TRUE)

\* C4 amended: the header test comes first, so a line with both "Amount" and
\* "Quant" activates the scanner even when it also holds a stop marker; the
\* scanner is INACTIVE after a line with a stop marker that is not a header
\* line; the items are exactly the item lines, in order.
C4_Scanner ==
    LET n == ItemsProcessed
    IN  pc \in {"parse_items", "save_csv"} =>
            /\ start_parsing = ActiveAfter(n, FALSE)
            /\ n > 0 /\ IsHeaderLine(cleaned_lines[n]) => start_parsing
            /\ n > 0 /\ ActualTerminator(cleaned_lines[n]) => ~start_parsing
            /\ data[1].items = ItemsOfLines(n, FALSE)

\* header, "Total 3 75.00" (deactivates, no item), a header that also holds
\* "Total" (reactivates, no item), "Milk 2 45.00": exactly one item
C4_Witness ==
    /\ pc = "save_csv"
    /\ cleaned_lines = <<I_header, I_total, I_header_total, I_milk>>
    /\ data[1].items = <<[item_name |-> T_Milk, quantity |-> 2, amount |-> 4500]>>

(***************************************************************************)
(* Properties of on_created and the sinks (checked under Spec).            *)
(***************************************************************************)
\* C5: when the Text Source returned no text (None, or an empty text),
\* on_created returns at once: no record is assembled, neither sink is
\* written, and the file stays in the watch folder, unarchived.
C5_NoTextSkips ==
    [][(pc = "ocr_done" /\ (raw_text = None \/ raw_text = Some(<<>>)))
           => /\ pc' = "idle"
              /\ assembled' = assembled
              /\ csv_file' = csv_file
              /\ db_receipts' = db_receipts
              /\ db_items' = db_items
              /\ txn' = txn
              /\ watch' = watch
              /\ archive' = archive
              /\ Basename(event[1]) \in watch']_vars

\* the OCR has failed on a file while both sinks hold an earlier record
C5_Witness ==
    /\ pc = "ocr_done"
    /\ raw_text = None
    /\ Last(stdout) = "Error during OCR"
    /\ csv_file # None
    /\ db_receipts # <<>>
    /\ Basename(event[1]) \in watch

\* C6: one sink's failure does not block the other: when save_to_csv is
\* left, by a return or by a failure, save_to_postgres is attempted next;
\* and a failure of save_to_postgres leaves the CSV file as it was.
C6_SinksIndependent ==
    [][/\ (pc = "save_csv" /\ pc' # pc) => pc' = "db_connect"
       /\ pc \in DbSteps => csv_file' = csv_file]_vars

\* C7: whatever fails while one file is handled, on_created returns without
\* raising, so the observer thread goes on to the next notification.
C7_FailuresContained == pc # "raised"

\* the committed item rows of receipt id, in insertion order
RECURSIVE ItemRowsOf(_, _)
ItemRowsOf(rows, id) ==
    IF rows = <<>> THEN <<>>
    ELSE (IF Head(rows).receipt_id = id THEN <<Head(rows)>> ELSE <<>>)
         \o ItemRowsOf(Tail(rows), id)

\* C8: the committed data of a record is its header row together with all
\* of its item rows, each carrying the header's receipt_id, or nothing: no
\* header without all its items, no item without its header.
C8_AllOrNothing ==
    /\ \A i \in 1..Len(db_receipts) :
           \E k \in 1..Len(assembled) :
               LET h == db_receipts[i]
                   d == assembled[k]
               IN  /\ h.filename = d.filename
                   /\ h.processed_at = d.processed_at
                   /\ h.store_name = d.store_name
                   /\ h.gstin = d.gstin
                   /\ h.invoice_total = d.invoice_amount
                   /\ ItemRowsOf(db_items, h.receipt_id) =
                          [j \in 1..Len(d.items) |->
                               [receipt_id |-> h.receipt_id,
                                item_name  |-> d.items[j].item_name,
                                quantity   |-> d.items[j].quantity,
                                amount     |-> d.items[j].amount]]
    /\ \A i, j \in 1..Len(db_receipts) :
           db_receipts[i].receipt_id = db_receipts[j].receipt_id => i = j
    /\ \A i \in 1..Len(db_items) :
           \E j \in 1..Len(db_receipts) :
               db_items[i].receipt_id = db_receipts[j].receipt_id

\* a write that had inserted its header and an item failed and left nothing,
\* and a later two-item record is committed whole
C8_Witness ==
    /\ Len(db_receipts) = 1
    /\ Len(db_items) = 2
    /\ db_receipts[1].receipt_id = 2
    /\ \E i \in 1..Len(stdout) : stdout[i] = "Database Error"

\* the number of times save_to_csv has returned
RECURSIVE CsvSaves(_)
CsvSaves(out) ==
    IF out = <<>> THEN 0
    ELSE (IF Head(out) = "Data saved to CSV" THEN 1 ELSE 0) + CsvSaves(Tail(out))

\* the rows one record contributes: one per item in item order, or the one
\* placeholder row
RowsOfRecord(d) ==
    LET meta(item, qty, price) ==
            [header |-> FALSE,
             cells |-> Some([Filename |-> d.filename, Date |-> d.processed_at,
                             Store |-> d.store_name, GSTIN |-> d.gstin,
                             Total |-> d.invoice_amount, Item |-> item,
                             Qty |-> qty, Price |-> price])]
    IN  IF Len(d.items) = 0 THEN <<meta(<<"N", "/", "A">>, 0, 0)>>
        ELSE [i \in 1..Len(d.items) |->
                  meta(d.items[i].item_name, d.items[i].quantity,
                       d.items[i].amount)]

RECURSIVE RowsOfRecords(_, _)
RowsOfRecords(records, n) ==
    IF n = 0 THEN <<>>
    ELSE RowsOfRecords(records, n - 1) \o RowsOfRecord(records[n])

\* C9: after any sequence of saves the file holds exactly one header row,
\* as its first row, followed by the rows of the saved records in order:
\* one row per item, or the N/A row with Qty 0 and Price 0.0.
C9_CsvContents ==
    LET n == CsvSaves(stdout)
    IN  n >= 1 =>
            /\ csv_file # None
            /\ csv_file[1][1].header
            /\ \A i \in 2..Len(csv_file[1]) : ~csv_file[1][i].header
            /\ csv_file[1] = <<[header |-> TRUE, cells |-> None]>>
                                 \o RowsOfRecords(assembled, n)

\* a record without items and a record with two items have been saved
C9_Witness ==
    /\ CsvSaves(stdout) = 2
    /\ Len(assembled[1].items) = 0
    /\ Len(assembled[2].items) = 2
    /\ Len(csv_file[1]) = 4
    /\ csv_file[1][2].cells[1].Qty = 0
    /\ csv_file[1][4].cells[1].Item = T_Bread

\* the order of the steps of on_created
StepOrder ==
    {<<"idle", "ocr">>, <<"ocr", "ocr_done">>, <<"ocr_done", "idle">>,
     <<"ocr_done", "parse_meta">>, <<"parse_meta", "parse_items">>,
     <<"parse_items", "save_csv">>, <<"save_csv", "db_connect">>,
     <<"db_connect", "db_header">>, <<"db_header", "db_items">>,
     <<"db_connect", "move">>, <<"db_header", "move">>,
     <<"db_items", "move">>, <<"move", "idle">>}

\* C10: the steps run in the order OCR, parse, flat-file write, relational
\* write, archive move; once the flat-file write has returned, the move is
\* attempted whether the relational write succeeded or failed; and the move,
\* failed or not, leaves both sinks' completed writes in place.
C10_StepOrder ==
    [][/\ (pc' # pc /\ pc' # "raised") => <<pc, pc'>> \in StepOrder
       /\ (pc = "save_csv" /\ csv_file' # csv_file /\ pc' # "raised")
              => pc' = "db_connect"
       /\ (pc \in DbSteps /\ pc' \notin DbSteps) => pc' = "move"
       /\ pc = "move" =>
              /\ csv_file' = csv_file
              /\ db_receipts' = db_receipts
              /\ db_items' = db_items]_vars

\* the relational write failed and the file was archived all the same
C10_Witness ==
    /\ pc = "idle"
    /\ Len(stdout) >= 2
    /\ stdout[Len(stdout) - 1] = "Database Error"
    /\ Last(stdout) = "Moved"
    /\ archive # {}
    /\ csv_file # None
====
